---- MODULE Spec2Model ----
(***************************************************************************)
(* PortfolioOptimizer (app/portfolio_optimizer.py): Monte Carlo simulation *)
(* of random long-only portfolios and selection of the optimal rows.       *)
(*                                                                         *)
(* Numbers.  The code computes in IEEE doubles.  Here a double is a        *)
(* fixed-point integer counting units of 1/ONE, or the value NaN.  Every   *)
(* operation rounds its exact result toward zero, as a double operation    *)
(* rounds to its grid; NaN propagates through arithmetic and makes every   *)
(* comparison false.  Prices are given by their natural logarithms, so     *)
(* np.log(p[t] / p[t-1]) is a difference of two grid points.               *)
(***************************************************************************)
EXTENDS Integers, Sequences, FiniteSets, TLC

(***************************************************************************)
(* Bounds of the model.                                                    *)
(***************************************************************************)
MaxAssets == 2

MaxDates == 3

MaxPortfolios == 2

\* Where runs interleave: the rows of a run, and the draws other code makes
\* after a seeding.
MaxSharedPortfolios == 1

MaxOtherDraws == 1

\* DataLoader: the days of the calendar and the rows the provider returns.
MaxDay == 3

MaxRows == 3

(***************************************************************************)
(* Program constants.                                                      *)
(***************************************************************************)
TradingDays == 252

Seed == 42

\* A date bound that is None (or the empty string): not set.
Unset == 0

(***************************************************************************)
(* The fixed-point grid.  ONE is divisible by every possible sum of draws, *)
(* so a normalised weight u / sum(u) is a grid point.                      *)
(***************************************************************************)
ONE == 12 * 10

NaN == 0 - (2 ^ 30)

IsNaN(x) == x = NaN

AnyNaN(s) == \E j \in 1..Len(s) : IsNaN(s[j])

\* Quotient rounded toward zero (b > 0).
TDiv(a, b) == IF a >= 0 THEN a \div b ELSE 0 - ((0 - a) \div b)

RECURSIVE SumSeq(_)
SumSeq(s) == IF s = <<>> THEN 0 ELSE Head(s) + SumSeq(Tail(s))

\* np.sum over a vector of doubles.
NpSum(s) == IF AnyNaN(s) THEN NaN ELSE SumSeq(s)

\* np.sqrt: NaN for a NaN or negative argument; v counts units of 1/ONE.
NpSqrt(v) ==
    IF IsNaN(v) \/ v < 0 THEN NaN
    ELSE CHOOSE r \in 0..(IF v < ONE THEN ONE ELSE v) :
            r * r <= v * ONE /\ v * ONE < (r + 1) * (r + 1)

(***************************************************************************)
(* Values of price_data: None, an object that is no DataFrame, or a        *)
(* DataFrame with cols columns and one row of log-prices per date.         *)
(***************************************************************************)
NoneData == [kind |-> "None"]

NotATable == [kind |-> "other"]

Frame(n, rs) == [kind |-> "DataFrame", cols |-> n, rows |-> rs]

EmptyFrame == Frame(0, <<>>)

\* One grid step of log-price between two dates.
TICK == ONE \div 60

\* The price matrices of the model: every column follows one of two series.
Patterns == {"ramp", "zigzag"}

\* Log-price of a series on date t: rising one step a day (every daily
\* return the same), or falling and rising by one step on alternate days.
Series(p, t) ==
    CASE p = "ramp" -> TICK * (t - 1)
      [] p = "zigzag" -> TICK * (t % 2)

PriceFrames ==
    { Frame(n, [t \in 1..T |-> [a \in 1..n |-> Series(pat[a], t)]]) :
        n \in 0..MaxAssets, T \in 0..MaxDates, pat \in [1..MaxAssets -> Patterns] }

PriceInputs == {NoneData, NotATable} \cup PriceFrames

RiskFreeRates == {0, ONE \div 20}

\* np.random.uniform draws from the half-open range [0, 1), 0.0 included:
\* the draws of the model are the grid points 0.0 and 0.5.
Draws == {0, 1}

\* DataFrame.empty: some axis has length 0.
IsEmpty(df) == df.cols = 0 \/ Len(df.rows) = 0

\* The test of line 78.
InvalidData(pd) == IF pd.kind # "DataFrame" THEN TRUE ELSE IsEmpty(pd)

(***************************************************************************)
(* log_ret = np.log(price_data / price_data.shift(1)): row 1 is NaN in     *)
(* every column and is skipped by mean() and cov(); the rows kept here are *)
(* the observations, the differences of consecutive log-prices.            *)
(***************************************************************************)
NumObs(df) == IF Len(df.rows) = 0 THEN 0 ELSE Len(df.rows) - 1

LogRetOf(df) ==
    [cols |-> df.cols,
     rows |-> [t \in 1..NumObs(df) |->
                  [a \in 1..df.cols |-> df.rows[t + 1][a] - df.rows[t][a]]]]

RetSum(lr, a) == SumSeq([t \in 1..Len(lr.rows) |-> lr.rows[t][a]])

\* log_ret.mean(): NaN for a column without observation.
MeanLogRet(lr) ==
    [a \in 1..lr.cols |->
        IF Len(lr.rows) < 1 THEN NaN ELSE TDiv(RetSum(lr, a), Len(lr.rows))]

\* log_ret.cov() * 252: the sample covariance (N - 1 denominator), NaN with
\* fewer than two observations.
CovMatrix(lr) ==
    LET N == Len(lr.rows)
        sums == [a \in 1..lr.cols |-> RetSum(lr, a)]
        dev(t, a) == N * lr.rows[t][a] - sums[a]
    IN  [a \in 1..lr.cols |-> [b \in 1..lr.cols |->
            IF N < 2 THEN NaN
            ELSE TDiv(SumSeq([t \in 1..N |-> dev(t, a) * dev(t, b)]) * TradingDays,
                      N * N * (N - 1) * ONE)]]

(***************************************************************************)
(* One iteration of the loop, lines 90-99.                                 *)
(***************************************************************************)
\* wts / np.sum(wts): 0/0 is NaN.
Normalize(us) ==
    LET total == SumSeq(us)
    IN  [a \in 1..Len(us) |-> IF total = 0 THEN NaN ELSE (us[a] * ONE) \div total]

\* x ** n by repeated squaring, carried on a grid PowDigits times finer.
PowDigits == 4 * 10

PowScale == ONE * PowDigits

RECURSIVE Pow(_, _)
Pow(b, n) ==
    IF n = 0 THEN PowScale
    ELSE LET h == Pow(b, n \div 2)
             sq == TDiv(h * h, PowScale)
         IN  IF n % 2 = 0 THEN sq ELSE TDiv(sq * b, ONE)

\* (x + 1) ** 252 for every x a mean daily log return can take.
PowTable == [b \in (ONE - TICK)..(ONE + TICK) |-> TDiv(Pow(b, TradingDays), PowDigits)]

\* port_ret = np.sum(log_ret.mean() * wts); port_ret = (port_ret + 1) ** 252 - 1
PortRet(lr, wts) ==
    LET m == MeanLogRet(lr)
    IN  IF AnyNaN(m) \/ AnyNaN(wts) THEN NaN
        ELSE PowTable[TDiv(SumSeq([a \in 1..Len(wts) |-> m[a] * wts[a]]), ONE) + ONE] - ONE

\* port_sd = np.sqrt(np.dot(wts.T, np.dot(cov_matrix, wts)))
PortSd(c, wts) ==
    LET n == Len(wts)
    IN  IF AnyNaN(wts) \/ (\E a \in 1..n : AnyNaN(c[a])) THEN NaN
        ELSE NpSqrt(TDiv(SumSeq([a \in 1..n |->
                            SumSeq([b \in 1..n |-> wts[a] * c[a][b] * wts[b]])]), ONE * ONE))

\* SharpeOf without the guard: a double divided by 0.0 is not finite.
SharpeUnguarded(ret, rf, sd) ==
    IF IsNaN(sd) \/ IsNaN(ret) \/ sd = 0 THEN NaN ELSE TDiv((ret - rf) * ONE, sd)

\* sr = (port_ret - risk_free_rate) / port_sd if port_sd > 0 else 0.0
SharpeOf(ret, rf, sd) ==
    IF ~IsNaN(sd) /\ sd > 0
    THEN (IF IsNaN(ret) THEN NaN ELSE TDiv((ret - rf) * ONE, sd))
    ELSE 0

VARIABLES price_data, num_portfolios, risk_free_rate, results,
          pc, i, log_ret, cov_matrix, all_wts, port_returns, port_risk, sharpe_ratio,
          stream, rng, call, value, results_id, held,
          data, start_date, end_date, session, output, response, saving, saved

vars == <<price_data, num_portfolios, risk_free_rate, results,
          pc, i, log_ret, cov_matrix, all_wts, port_returns, port_risk, sharpe_ratio,
          stream, rng, call, value, results_id, held,
          data, start_date, end_date, session, output, response, saving, saved>>

\* The fields of a DataLoader (data_loader.py, lines 28-31).
loader == <<data, start_date, end_date>>

\* The state of the Flask application (app/__init__.py): the session of each
\* client, the file output.html, the last response sent, the form of each
\* client's POST /optimize that is writing the file, and the file as the
\* last completed POST /optimize left it.
web == <<session, output, response, saving, saved>>

\* What the callers of the optimizer hold, and the objects of other classes.
aside == <<held, loader, web>>

fields == <<price_data, num_portfolios, risk_free_rate>>

locals == <<i, log_ret, cov_matrix, all_wts, port_returns, port_risk, sharpe_ratio>>

NoResults == [kind |-> "None"]

\* The state of numpy's global generator before any np.random.seed call.
Unseeded == 0 - 1

NoValue == [kind |-> "None"]

(***************************************************************************)
(* Object identity.  self.results refers to a dict object; results is what *)
(* that object holds and results_id which object it is.  A caller that     *)
(* keeps the dict run_simulation returned holds the object held.id, which  *)
(* held table when it was returned.                                        *)
(***************************************************************************)
NoObject == 0

ObjectIds == 1..2

NotHeld == [id |-> NoObject, table |-> NoValue]

\* A dict literal builds a new object: one that no caller holds.
NewObject == CHOOSE o \in ObjectIds : o # held.id /\ \A q \in ObjectIds : q # held.id => o <= q

\* np.zeros(n) and np.zeros((k, n)).
Zeros(k) == [j \in 1..k |-> 0]

Zeros2(k, n) == [cols |-> n, rows |-> [j \in 1..k |-> Zeros(n)]]

NoLocals ==
    /\ i = 0
    /\ log_ret = [cols |-> 0, rows |-> <<>>]
    /\ cov_matrix = <<>>
    /\ all_wts = Zeros2(0, 0)
    /\ port_returns = <<>>
    /\ port_risk = <<>>
    /\ sharpe_ratio = <<>>

\* No DataLoader has been built.
NoLoader ==
    /\ data = NoneData
    /\ start_date = Unset
    /\ end_date = Unset

Clients == {"a", "b"}

NoSession == [data |-> <<>>, flashes |-> <<>>]

NoFile == [kind |-> "None"]

NoResponse == [kind |-> "None"]

\* The application serves no request.
NoWeb ==
    /\ session = [c \in Clients |-> NoSession]
    /\ output = NoFile
    /\ response = NoResponse
    /\ saving = [c \in Clients |-> NoValue]
    /\ saved = NoFile

\* PortfolioOptimizer.__init__
Init ==
    /\ price_data \in PriceInputs
    /\ num_portfolios \in -1..MaxPortfolios
    /\ risk_free_rate \in RiskFreeRates
    /\ results = NoResults
    /\ pc = "idle"
    /\ NoLocals
    /\ stream = <<>>
    /\ rng = [seed |-> Unseeded, pos |-> 0]
    /\ call = [op |-> "__init__", outcome |-> "returned"]
    /\ value = NoValue
    /\ results_id = NoObject
    /\ held = NotHeld
    /\ NoLoader
    /\ NoWeb

Raise(op) ==
    /\ call' = [op |-> op, outcome |-> "raised"]
    /\ value' = NoValue

Return(op, v) ==
    /\ call' = [op |-> op, outcome |-> "returned"]
    /\ value' = v

(***************************************************************************)
(* run_simulation, lines 77-110.                                           *)
(***************************************************************************)
\* RunInvalidData dropping the stored table before it fails.
RunInvalidDataClears ==
    /\ pc = "idle"
    /\ InvalidData(price_data)
    /\ Raise("run_simulation")
    /\ results' = NoResults
    /\ UNCHANGED <<fields, results_id, pc, locals, stream, rng, aside>>

\* Line 78: the data is refused; the except clause of line 108 re-raises.
RunInvalidData ==
    /\ pc = "idle"
    /\ InvalidData(price_data)
    /\ Raise("run_simulation")
    /\ UNCHANGED <<fields, results, results_id, pc, locals, stream, rng, aside>>

\* Line 84: np.zeros refuses a negative dimension.
RunNegativeCount ==
    /\ pc = "idle"
    /\ ~InvalidData(price_data)
    /\ num_portfolios < 0
    /\ Raise("run_simulation")
    /\ UNCHANGED <<fields, results, results_id, pc, locals, stream, rng, aside>>

\* RunEnter without line 88: the generator goes on from where it stands.
RunEnterUnseeded ==
    /\ pc = "idle"
    /\ ~InvalidData(price_data)
    /\ num_portfolios >= 0
    /\ pc' = "loop"
    /\ i' = 0
    /\ log_ret' = LogRetOf(price_data)
    /\ cov_matrix' = CovMatrix(LogRetOf(price_data))
    /\ all_wts' = Zeros2(num_portfolios, price_data.cols)
    /\ port_returns' = Zeros(num_portfolios)
    /\ port_risk' = Zeros(num_portfolios)
    /\ sharpe_ratio' = Zeros(num_portfolios)
    /\ rng' = [seed |-> Seed, pos |-> rng.pos]
    /\ call' = [op |-> "run_simulation", outcome |-> "running"]
    /\ value' = NoValue
    /\ UNCHANGED <<fields, results, results_id, stream, aside>>

\* Lines 81-88: the arrays are allocated and the global generator is seeded.
RunEnter ==
    /\ pc = "idle"
    /\ ~InvalidData(price_data)
    /\ num_portfolios >= 0
    /\ pc' = "loop"
    /\ i' = 0
    /\ log_ret' = LogRetOf(price_data)
    /\ cov_matrix' = CovMatrix(LogRetOf(price_data))
    /\ all_wts' = Zeros2(num_portfolios, price_data.cols)
    /\ port_returns' = Zeros(num_portfolios)
    /\ port_risk' = Zeros(num_portfolios)
    /\ sharpe_ratio' = Zeros(num_portfolios)
    /\ rng' = [seed |-> Seed, pos |-> 0]
    /\ call' = [op |-> "run_simulation", outcome |-> "running"]
    /\ value' = NoValue
    /\ UNCHANGED <<fields, results, results_id, stream, aside>>

\* The next n outputs of the generator seeded with Seed.  stream holds the
\* outputs produced so far after np.random.seed(Seed): a position already
\* produced is replayed, a new one may be any draw and is fixed from then on.
NextDraws(n, us) ==
    /\ rng.seed = Seed
    /\ Len(us) = n
    /\ \A a \in 1..n : rng.pos + a <= Len(stream) => us[a] = stream[rng.pos + a]
    /\ stream' = IF rng.pos + n <= Len(stream) THEN stream
                 ELSE SubSeq(stream, 1, rng.pos) \o us
    /\ rng' = [rng EXCEPT !.pos = rng.pos + n]

\* StoreRow with the metrics taken from the weights of the row before.
StoreRowStale(j, wts) ==
    LET prev == IF j > 1 THEN all_wts.rows[j - 1] ELSE wts
        ret == PortRet(log_ret, prev)
        sd == PortSd(cov_matrix, prev)
    IN  /\ all_wts' = [all_wts EXCEPT !.rows[j] = wts]
        /\ port_returns' = [port_returns EXCEPT ![j] = ret]
        /\ port_risk' = [port_risk EXCEPT ![j] = sd]
        /\ sharpe_ratio' = [sharpe_ratio EXCEPT ![j] = SharpeOf(ret, risk_free_rate, sd)]

\* Row j of the arrays is written from the weights wts, lines 92-99.
StoreRow(j, wts) ==
    LET ret == PortRet(log_ret, wts)
        sd == PortSd(cov_matrix, wts)
    IN  /\ all_wts' = [all_wts EXCEPT !.rows[j] = wts]
        /\ port_returns' = [port_returns EXCEPT ![j] = ret]
        /\ port_risk' = [port_risk EXCEPT ![j] = sd]
        /\ sharpe_ratio' = [sharpe_ratio EXCEPT ![j] = SharpeOf(ret, risk_free_rate, sd)]

\* Lines 89-99: one pass of the loop body.
RunIterate ==
    /\ pc = "loop"
    /\ i < num_portfolios
    /\ \E us \in [1..price_data.cols -> Draws] :
        /\ NextDraws(price_data.cols, us)
        /\ StoreRow(i + 1, Normalize(us))
    /\ i' = i + 1
    /\ UNCHANGED <<fields, results, results_id, pc, log_ret, cov_matrix, call, value, aside>>

\* The dict of lines 100-105.
ResultsDict ==
    [kind |-> "dict", weights |-> all_wts, returns |-> port_returns,
     risk |-> port_risk, sharpe_ratio |-> sharpe_ratio]

\* RunFinish refilling the dict self.results already refers to.
RunFinishInPlace ==
    /\ pc = "loop"
    /\ i >= num_portfolios
    /\ results' = ResultsDict
    /\ results_id' = IF results_id # NoObject THEN results_id ELSE NewObject
    /\ pc' = "idle"
    /\ Return("run_simulation", ResultsDict)
    /\ i' = 0
    /\ log_ret' = [cols |-> 0, rows |-> <<>>]
    /\ cov_matrix' = <<>>
    /\ all_wts' = Zeros2(0, 0)
    /\ port_returns' = <<>>
    /\ port_risk' = <<>>
    /\ sharpe_ratio' = <<>>
    /\ UNCHANGED <<fields, stream, rng, aside>>

\* Lines 100-107: the loop is over, the arrays go into a new dict, which is
\* stored and returned.
RunFinish ==
    /\ pc = "loop"
    /\ i >= num_portfolios
    /\ results' = ResultsDict
    /\ results_id' = NewObject
    /\ pc' = "idle"
    /\ Return("run_simulation", ResultsDict)
    /\ i' = 0
    /\ log_ret' = [cols |-> 0, rows |-> <<>>]
    /\ cov_matrix' = <<>>
    /\ all_wts' = Zeros2(0, 0)
    /\ port_returns' = <<>>
    /\ port_risk' = <<>>
    /\ sharpe_ratio' = <<>>
    /\ UNCHANGED <<fields, stream, rng, aside>>

(***************************************************************************)
(* get_metrics_df, lines 120-136: the table as a sequence of rows, or a    *)
(* failure: no results, price_data without .shape, or a column list that   *)
(* does not fit the width of the data.                                     *)
(***************************************************************************)
\* Row with the weight columns read from the first row.
RowMixed(res, j) ==
    [Return |-> res.returns[j], Risk |-> res.risk[j],
     Sharpe |-> res.sharpe_ratio[j], Weights |-> res.weights.rows[1]]

Row(res, j) ==
    [Return |-> res.returns[j], Risk |-> res.risk[j],
     Sharpe |-> res.sharpe_ratio[j], Weights |-> res.weights.rows[j]]

\* MetricsDf without the test of line 121: no results make an empty table.
MetricsDfUnchecked(pd, res) ==
    IF pd.kind # "DataFrame" THEN [ok |-> FALSE, rows |-> <<>>]
    ELSE IF res.kind = "None" THEN [ok |-> TRUE, rows |-> <<>>]
    ELSE IF pd.cols # res.weights.cols THEN [ok |-> FALSE, rows |-> <<>>]
    ELSE [ok |-> TRUE, rows |-> [j \in 1..Len(res.returns) |-> Row(res, j)]]

MetricsDf(pd, res) ==
    IF res.kind = "None" \/ pd.kind # "DataFrame" THEN [ok |-> FALSE, rows |-> <<>>]
    ELSE IF pd.cols # res.weights.cols THEN [ok |-> FALSE, rows |-> <<>>]
    ELSE [ok |-> TRUE, rows |-> [j \in 1..Len(res.returns) |-> Row(res, j)]]

GetMetricsDf ==
    /\ pc = "idle"
    /\ LET df == MetricsDf(price_data, results)
       IN  IF df.ok THEN Return("get_metrics_df", [kind |-> "DataFrame", rows |-> df.rows])
           ELSE Raise("get_metrics_df")
    /\ UNCHANGED <<fields, results, results_id, pc, locals, stream, rng, aside>>

(***************************************************************************)
(* Series.idxmax / idxmin: NaN is skipped, the first label holding the     *)
(* extreme value is returned; 0 stands for no label (an empty or all-NaN   *)
(* column), on which the lookup of lines 152-154 fails.                    *)
(***************************************************************************)
Valid(s) == {j \in 1..Len(s) : ~IsNaN(s[j])}

\* IdxMax returning the last label holding the maximum.
IdxMaxLast(s) ==
    IF Valid(s) = {} THEN 0
    ELSE CHOOSE j \in Valid(s) :
            /\ \A k \in Valid(s) : s[k] <= s[j]
            /\ \A k \in Valid(s) : s[k] = s[j] => k <= j

IdxMax(s) ==
    IF Valid(s) = {} THEN 0
    ELSE CHOOSE j \in Valid(s) :
            /\ \A k \in Valid(s) : s[k] <= s[j]
            /\ \A k \in Valid(s) : s[k] = s[j] => j <= k

IdxMin(s) ==
    IF Valid(s) = {} THEN 0
    ELSE CHOOSE j \in Valid(s) :
            /\ \A k \in Valid(s) : s[j] <= s[k]
            /\ \A k \in Valid(s) : s[k] = s[j] => j <= k

Column(rows, f) == [j \in 1..Len(rows) |-> rows[j][f]]

\* GetOptimalPortfolios answering an empty table with three empty entries.
GetOptimalPortfoliosLenient ==
    /\ pc = "idle"
    /\ LET df == MetricsDf(price_data, results)
           max_sharpe_idx == IdxMax(Column(df.rows, "Sharpe"))
           min_var_idx == IdxMin(Column(df.rows, "Risk"))
           max_ret_idx == IdxMax(Column(df.rows, "Return"))
       IN  IF df.ok /\ Len(df.rows) = 0
           THEN Return("get_optimal_portfolios",
                       [kind |-> "dict", max_sharpe |-> NoValue,
                        min_variance |-> NoValue, max_return |-> NoValue])
           ELSE IF df.ok /\ max_sharpe_idx # 0 /\ min_var_idx # 0 /\ max_ret_idx # 0
           THEN Return("get_optimal_portfolios",
                       [kind |-> "dict",
                        max_sharpe |-> df.rows[max_sharpe_idx],
                        min_variance |-> df.rows[min_var_idx],
                        max_return |-> df.rows[max_ret_idx]])
           ELSE Raise("get_optimal_portfolios")
    /\ UNCHANGED <<fields, results, results_id, pc, locals, stream, rng, aside>>

\* get_optimal_portfolios, lines 146-158.
GetOptimalPortfolios ==
    /\ pc = "idle"
    /\ LET df == MetricsDf(price_data, results)
           max_sharpe_idx == IdxMax(Column(df.rows, "Sharpe"))
           min_var_idx == IdxMin(Column(df.rows, "Risk"))
           max_ret_idx == IdxMax(Column(df.rows, "Return"))
       IN  IF df.ok /\ max_sharpe_idx # 0 /\ min_var_idx # 0 /\ max_ret_idx # 0
           THEN Return("get_optimal_portfolios",
                       [kind |-> "dict",
                        max_sharpe |-> df.rows[max_sharpe_idx],
                        min_variance |-> df.rows[min_var_idx],
                        max_return |-> df.rows[max_ret_idx]])
           ELSE Raise("get_optimal_portfolios")
    /\ UNCHANGED <<fields, results, results_id, pc, locals, stream, rng, aside>>

\* get_visualization_data, lines 168-179: the table, the optimal rows and a
\* copy of the results dict; a failure of either getter fails the call.
GetVisualizationData ==
    /\ pc = "idle"
    /\ LET metrics_df == MetricsDf(price_data, results)
           max_sharpe_idx == IdxMax(Column(metrics_df.rows, "Sharpe"))
           min_var_idx == IdxMin(Column(metrics_df.rows, "Risk"))
           max_ret_idx == IdxMax(Column(metrics_df.rows, "Return"))
       IN  IF metrics_df.ok /\ max_sharpe_idx # 0 /\ min_var_idx # 0 /\ max_ret_idx # 0
           THEN Return("get_visualization_data",
                       [kind |-> "dict",
                        metrics_df |-> [kind |-> "DataFrame", rows |-> metrics_df.rows],
                        optimal |-> [kind |-> "dict",
                                     max_sharpe |-> metrics_df.rows[max_sharpe_idx],
                                     min_variance |-> metrics_df.rows[min_var_idx],
                                     max_return |-> metrics_df.rows[max_ret_idx]],
                        raw |-> results])
           ELSE Raise("get_visualization_data")
    /\ UNCHANGED <<fields, results, results_id, pc, locals, stream, rng, aside>>

(***************************************************************************)
(* price_data is a public attribute (line 61): between two calls the       *)
(* caller may rebind it.  The values rebound here are the ones line 78     *)
(* refuses.                                                                *)
(***************************************************************************)
Rebound == {NoneData, NotATable, EmptyFrame}

SetPriceData ==
    /\ pc = "idle"
    /\ \E d \in Rebound :
        /\ d # price_data
        /\ price_data' = d
    /\ call' = [op |-> "price_data", outcome |-> "returned"]
    /\ value' = NoValue
    /\ UNCHANGED <<num_portfolios, risk_free_rate, results, results_id, pc, locals, stream, rng, aside>>

\* The caller keeps the dict run_simulation has just returned (line 107).
Keep ==
    /\ call = [op |-> "run_simulation", outcome |-> "returned"]
    /\ held.id = NoObject
    /\ held' = [id |-> results_id, table |-> value]
    /\ UNCHANGED <<fields, results, results_id, pc, locals, stream, rng, call, value, loader, web>>

(***************************************************************************)
(* np.random is one generator for the whole process (lines 88 and 90 name  *)
(* the module, not an object of the run).  Other code of the process draws *)
(* from it, and the run_simulation of another optimizer seeds it and draws *)
(* from it.  Draws made before any seeding are not modelled: the state of  *)
(* the generator is then unknown.                                          *)
(***************************************************************************)
OtherDraws(limit) ==
    /\ rng.seed = Seed
    /\ rng.pos < limit
    /\ \E u \in Draws : NextDraws(1, <<u>>)
    /\ UNCHANGED <<fields, results, results_id, pc, locals, call, value, aside>>

\* Line 90, run by another optimizer, or a draw of any other code.
OtherDraw == OtherDraws(MaxOtherDraws)

\* Line 88, run by another optimizer.
OtherSeed ==
    /\ rng # [seed |-> Seed, pos |-> 0]
    /\ rng' = [seed |-> Seed, pos |-> 0]
    /\ UNCHANGED <<fields, results, results_id, pc, locals, stream, call, value, aside>>

\* The number of draws the last completed run made.
TableDraws ==
    IF results.kind = "dict" THEN Len(results.returns) * results.weights.cols ELSE 0

\* Other code draws while no run of this optimizer is under way.
DrawBetweenRuns ==
    /\ pc = "idle"
    /\ OtherDraws(TableDraws + MaxOtherDraws)

Next ==
    \/ RunInvalidData
    \/ RunNegativeCount
    \/ RunEnter
    \/ RunIterate
    \/ RunFinish
    \/ GetMetricsDf
    \/ GetOptimalPortfolios
    \/ GetVisualizationData
    \/ SetPriceData

Spec == Init /\ [][Next]_vars

\* Two assets with different histories over three dates.
TwoHistories == Frame(2, [t \in 1..3 |-> <<Series("ramp", t), Series("zigzag", t)>>])

\* One optimizer run again and again by a single thread, in a process where
\* other code draws random numbers between the runs.
InitSequential ==
    /\ Init
    /\ price_data = TwoHistories
    /\ num_portfolios >= 1

NextSequential ==
    \/ RunEnter
    \/ RunIterate
    \/ RunFinish
    \/ DrawBetweenRuns

SpecSequential == InitSequential /\ [][NextSequential]_vars

\* One optimizer in a process where the runs of other optimizers interleave
\* with its own (one thread per request), and whose caller keeps the tables.
InitShared ==
    /\ Init
    /\ price_data = TwoHistories
    /\ num_portfolios \in 1..MaxSharedPortfolios
    /\ risk_free_rate = 0

NextShared ==
    \/ RunInvalidData
    \/ RunEnter
    \/ RunIterate
    \/ RunFinish
    \/ SetPriceData
    \/ Keep
    \/ OtherDraw
    \/ OtherSeed

SpecShared == InitShared /\ [][NextShared]_vars

(***************************************************************************)
(* DataLoader (app/data_loader.py).  data is None or a DataFrame whose     *)
(* index is the Date (line 95) and which has one column of close prices;   *)
(* a row is its date, a day of 1..MaxDay, and its price, a number or NaN.  *)
(* A date bound is a day or Unset; dates compare as the days they name.    *)
(***************************************************************************)
optimizer == <<fields, results, results_id, pc, locals, stream, rng, held>>

\* No PortfolioOptimizer has been built.
NoOptimizer ==
    /\ price_data = NoneData
    /\ num_portfolios = 0
    /\ risk_free_rate = 0
    /\ results = NoResults
    /\ results_id = NoObject
    /\ pc = "idle"
    /\ NoLocals
    /\ stream = <<>>
    /\ rng = [seed |-> Unseeded, pos |-> 0]
    /\ held = NotHeld

Days == 1..MaxDay

DateBounds == {Unset} \cup Days

Table(rs) == [kind |-> "DataFrame", rows |-> rs]

\* What the merge of lines 80-88 can hold: rows in any order, a date more
\* than once, a price missing where a symbol has no quote on that date.  The
\* price of a row tells the rows apart.
MergedFrames ==
    UNION { { [j \in 1..n |-> [Date |-> ds[j], close |-> IF j \in gaps THEN NaN ELSE j]] :
                ds \in [1..n -> Days], gaps \in SUBSET (1..n) } : n \in 0..MaxRows }

\* df.apply(pd.to_numeric, errors='coerce').dropna(): the rows without NaN.
DropNa(rs) == SelectSeq(rs, LAMBDA r : ~IsNaN(r.close))

\* DataLoader.__init__
InitLoader ==
    /\ NoOptimizer
    /\ NoWeb
    /\ data = NoneData
    /\ start_date \in DateBounds
    /\ end_date \in DateBounds
    /\ call = [op |-> "__init__", outcome |-> "returned"]
    /\ value = NoValue

\* load, lines 52-104, on a loader that holds no data yet (optimize loads a
\* new DataLoader once, lines 87-88): the dates are refused (line 55), the
\* provider fails (line 76), nothing was fetched (line 103), or the merged
\* frame is cleaned and stored.
Load ==
    /\ data.kind = "None"
    /\ \/ Raise("load") /\ UNCHANGED data
       \/ /\ ~(start_date # Unset /\ end_date # Unset /\ start_date > end_date)
          /\ \E merged \in MergedFrames :
              /\ merged # <<>>
              /\ data' = Table(DropNa(merged))
              /\ Return("load", Table(DropNa(merged)))
    /\ UNCHANGED <<optimizer, start_date, end_date, web>>

\* clean, lines 113-127.
Clean ==
    /\ IF data.kind = "None"
       THEN Return("clean", NoValue) /\ UNCHANGED data
       ELSE /\ data' = Table(DropNa(data.rows))
            /\ Return("clean", Table(DropNa(data.rows)))
    /\ UNCHANGED <<optimizer, start_date, end_date, web>>

\* FilterRows with the end date left out of the range.
FilterRowsExclusive(rs) ==
    LET from == IF start_date # Unset
                THEN SelectSeq(rs, LAMBDA r : r.Date >= start_date) ELSE rs
    IN  IF end_date # Unset THEN SelectSeq(from, LAMBDA r : r.Date < end_date) ELSE from

\* Lines 141-144: one mask after the other, each only if its bound is set.
FilterRows(rs) ==
    LET from == IF start_date # Unset
                THEN SelectSeq(rs, LAMBDA r : r.Date >= start_date) ELSE rs
    IN  IF end_date # Unset THEN SelectSeq(from, LAMBDA r : r.Date <= end_date) ELSE from

\* filter_dates, lines 136-150.
FilterDates ==
    /\ IF data.kind = "None"
       THEN Return("filter_dates", NoValue) /\ UNCHANGED data
       ELSE /\ data' = Table(FilterRows(data.rows))
            /\ Return("filter_dates", Table(FilterRows(data.rows)))
    /\ UNCHANGED <<optimizer, start_date, end_date, web>>

\* GetData refusing only data that is None.
GetDataUnlessNone ==
    /\ IF data.kind = "None"
       THEN Raise("get_data")
       ELSE Return("get_data", data)
    /\ UNCHANGED <<optimizer, loader, web>>

\* get_data, lines 169-172.
GetData ==
    /\ IF data.kind # "DataFrame" THEN Raise("get_data")
       ELSE IF Len(data.rows) = 0 THEN Raise("get_data")
       ELSE Return("get_data", data)
    /\ UNCHANGED <<optimizer, loader, web>>

NextLoader ==
    \/ Load
    \/ Clean
    \/ FilterDates
    \/ GetData

SpecLoader == InitLoader /\ [][NextLoader]_vars

(***************************************************************************)
(* The Flask application (app/__init__.py).  A form field is a string, a   *)
(* sequence of characters; the functions of str, re, int and float the     *)
(* handler applies are computed on it character by character.              *)
(***************************************************************************)
\* The characters of the model, in the order of their code points.
CodeOrder ==
    <<" ", "$", "+", ",", "-", ".", "0", "1", "2", "5", "9",
      "A", "B", "E", "N", "_", "a", "b", "e", "n">>

Code(c) == CHOOSE k \in 1..Len(CodeOrder) : CodeOrder[k] = c

DigitChars == {"0", "1", "2", "5", "9"}

DigitValue(c) ==
    CASE c = "0" -> 0 [] c = "1" -> 1 [] c = "2" -> 2 [] c = "5" -> 5 [] c = "9" -> 9

\* str.upper and str.lower, character by character.
UpperOf(c) ==
    CASE c = "a" -> "A" [] c = "b" -> "B" [] c = "e" -> "E" [] c = "n" -> "N"
      [] OTHER -> c

LowerOf(c) ==
    CASE c = "A" -> "a" [] c = "B" -> "b" [] c = "E" -> "e" [] c = "N" -> "n"
      [] OTHER -> c

Upper(s) == [k \in 1..Len(s) |-> UpperOf(s[k])]

Lower(s) == [k \in 1..Len(s) |-> LowerOf(s[k])]

\* str.strip: the whitespace at both ends is removed.
RECURSIVE LStrip(_)
LStrip(s) == IF s # <<>> /\ Head(s) = " " THEN LStrip(Tail(s)) ELSE s

RECURSIVE RStrip(_)
RStrip(s) ==
    IF s # <<>> /\ s[Len(s)] = " " THEN RStrip(SubSeq(s, 1, Len(s) - 1)) ELSE s

Strip(s) == RStrip(LStrip(s))

\* s.split(','): the pieces between the commas, empty ones included.
RECURSIVE Split(_)
Split(s) ==
    IF \A k \in 1..Len(s) : s[k] # "," THEN <<s>>
    ELSE LET k == CHOOSE k \in 1..Len(s) :
                      s[k] = "," /\ \A m \in 1..(k - 1) : s[m] # ","
         IN  <<SubSeq(s, 1, k - 1)>> \o Split(SubSeq(s, k + 1, Len(s)))

\* [s.strip().upper() for s in symbols_raw.split(',') if s.strip()], line 56.
SymbolsOf(symbols_raw) ==
    LET pieces == Split(symbols_raw)
        kept == SelectSeq(pieces, LAMBDA x : Strip(x) # <<>>)
    IN  [k \in 1..Len(kept) |-> Upper(Strip(kept[k]))]

\* re.match(r'^[A-Z0-9.\-]+$', s), line 57.
SymbolChars == {"A", "B", "E", "N", ".", "-"} \cup DigitChars

IsSymbol(s) == s # <<>> /\ \A k \in 1..Len(s) : s[k] \in SymbolChars

\* a > b on two str: the first character that differs decides, a proper
\* prefix is the smaller.
RECURSIVE StrGT(_, _)
StrGT(a, b) ==
    IF a = <<>> THEN FALSE
    ELSE IF b = <<>> THEN TRUE
    ELSE IF Head(a) # Head(b) THEN Code(Head(a)) > Code(Head(b))
    ELSE StrGT(Tail(a), Tail(b))

\* A run of digits, single underscores allowed between two digits.
Digits(s) ==
    /\ s # <<>>
    /\ \A k \in 1..Len(s) :
        \/ s[k] \in DigitChars
        \/ /\ s[k] = "_"
           /\ 1 < k
           /\ k < Len(s)
           /\ s[k - 1] \in DigitChars
           /\ s[k + 1] \in DigitChars

Unsigned(s) == IF s # <<>> /\ Head(s) \in {"+", "-"} THEN Tail(s) ELSE s

\* int(s) accepts an optional sign and digits; its value.
IsInt(s) == Digits(Unsigned(s))

RECURSIVE NatOf(_)
NatOf(s) ==
    IF s = <<>> THEN 0
    ELSE IF s[Len(s)] = "_" THEN NatOf(SubSeq(s, 1, Len(s) - 1))
    ELSE NatOf(SubSeq(s, 1, Len(s) - 1)) * 10 + DigitValue(s[Len(s)])

IntOf(s) == IF s # <<>> /\ Head(s) = "-" THEN 0 - NatOf(Tail(s)) ELSE NatOf(s)

\* float(s) accepts an optional sign, then inf, infinity or nan in any case,
\* or digits with an optional point and an optional exponent.
Mantissa(s) ==
    \/ Digits(s)
    \/ \E k \in 1..Len(s) :
        LET whole == SubSeq(s, 1, k - 1)
            frac == SubSeq(s, k + 1, Len(s))
        IN  /\ s[k] = "."
            /\ whole = <<>> \/ Digits(whole)
            /\ frac = <<>> \/ Digits(frac)
            /\ whole # <<>> \/ frac # <<>>

IsFloat(s) ==
    LET u == Unsigned(s)
    IN  \/ Lower(u) \in {<<"n", "a", "n">>}
        \/ Mantissa(u)
        \/ \E k \in 1..Len(u) :
            /\ u[k] \in {"e", "E"}
            /\ Mantissa(SubSeq(u, 1, k - 1))
            /\ Digits(Unsigned(SubSeq(u, k + 1, Len(u))))

(***************************************************************************)
(* The forms posted: one that passes every check, the forms that differ    *)
(* from it in one field, and one that fails every check.                   *)
(***************************************************************************)
SymbolsFields == {<<"A">>, <<" ", "a", ",", " ", "B", ",">>, <<>>, <<" ", ",">>, <<"A", "$">>}

StartDateFields == {<<"0", "1">>, <<"1", "0">>, <<>>}

EndDateFields == {<<"0", "2">>, <<>>}

NumPortfoliosFields ==
    {<<"1", "0", "0">>, <<"9", "9">>, <<"1", "0", "0", "0", "1">>, <<"1", "e", "2">>}

RiskFreeRateFields == {<<"0", ".", "5">>, <<"0", ",", "5">>, <<>>}

GoodForm ==
    [symbols |-> <<"A">>, start_date |-> <<"0", "1">>, end_date |-> <<"0", "2">>,
     num_portfolios |-> <<"1", "0", "0">>, risk_free_rate |-> <<"0", ".", "5">>]

FormFields == {"symbols", "start_date", "end_date", "num_portfolios", "risk_free_rate"}

BadForm ==
    [symbols |-> <<>>, start_date |-> <<"1", "0">>, end_date |-> <<>>,
     num_portfolios |-> <<"9", "9">>, risk_free_rate |-> <<"0", ",", "5">>]

Forms ==
    { f \in [symbols : SymbolsFields, start_date : StartDateFields, end_date : EndDateFields,
             num_portfolios : NumPortfoliosFields, risk_free_rate : RiskFreeRateFields] :
        Cardinality({x \in FormFields : f[x] # GoodForm[x]}) <= 1 } \cup {BadForm}

\* The messages flashed by the checks of lines 53-83.
NoSymbols == "Please enter at least one stock symbol."

InvalidSymbols == "Invalid symbol(s) detected. Use only letters, numbers, dashes, or dots."

MissingDate == "Please provide both start and end dates."

StartAfterEnd == "Start date must be before end date."

BadNumPortfolios == "Number of portfolios must be an integer between 100 and 10,000."

BadRiskFreeRate == "Risk-free rate must be a valid number."

Messages ==
    {NoSymbols, InvalidSymbols, MissingDate, StartAfterEnd, BadNumPortfolios, BadRiskFreeRate}

\* Lines 45-83: the message of the first check the form fails, or "" when it
\* passes them all.
Validate(f) ==
    LET symbols_raw == Strip(f.symbols)
        begin == Strip(f.start_date)
        end == Strip(f.end_date)
        num_portfolios_raw == Strip(f.num_portfolios)
        risk_free_rate_raw == Strip(f.risk_free_rate)
        symbols == SymbolsOf(symbols_raw)
    IN  IF symbols_raw = <<>> THEN NoSymbols
        ELSE IF symbols = <<>> \/ \E k \in 1..Len(symbols) : ~IsSymbol(symbols[k])
        THEN InvalidSymbols
        ELSE IF begin = <<>> \/ end = <<>>
        THEN MissingDate
        ELSE IF StrGT(begin, end) THEN StartAfterEnd
        ELSE IF ~IsInt(num_portfolios_raw)
        THEN BadNumPortfolios
        ELSE IF ~(100 <= IntOf(num_portfolios_raw) /\ IntOf(num_portfolios_raw) <= 10000)
        THEN BadNumPortfolios
        ELSE IF ~IsFloat(risk_free_rate_raw) THEN BadRiskFreeRate
        ELSE ""

\* Validate, tabulated over the forms posted.
Verdict == [f \in Forms |-> Validate(f)]

\* The dict of line 109.
LastInputs(f) ==
    [kind |-> "dict",
     symbols |-> SymbolsOf(Strip(f.symbols)),
     start_date |-> Strip(f.start_date),
     end_date |-> Strip(f.end_date),
     num_portfolios |-> IntOf(Strip(f.num_portfolios)),
     risk_free_rate |-> [float |-> Lower(Strip(f.risk_free_rate))]]

\* flash(message, "error"): the message joins the session of the client.
Flash(c, message) ==
    session' = [session EXCEPT ![c].flashes = Append(@, message)]

\* session[key] = v in the session of the client.
SetSession(c, key, v) ==
    session' = [session EXCEPT ![c].data = (key :> v) @@ @]

\* redirect(url_for(...)): status 302; ran names what the handler invoked.
Redirect(location, ran) ==
    [kind |-> "redirect", status |-> 302, location |-> location, ran |-> ran]

\* The file save(layout) writes at output_path, lines 112-115.
Written(c, f) ==
    [kind |-> "file", title |-> "Portfolio Optimization Results", by |-> c,
     inputs |-> LastInputs(f)]

\* The request a handler answers.
Post(c, f) == [op |-> "optimize", client |-> c, form |-> f]

Get(c, op) == [op |-> op, client |-> c]

\* The requests of a client: a browser follows a redirect to the main page,
\* which shows the flashed messages, before it posts the next form.
CanPost(c) == session[c].flashes = <<>>

Loaded == {"DataLoader"}

Optimized == {"DataLoader", "PortfolioOptimizer"}

Rendered == {"DataLoader", "PortfolioOptimizer", "combined_layout"}

\* Optimize running the loader before it looks at the form.
OptimizeLoadsFirst ==
    \E c \in Clients, f \in Forms :
        /\ CanPost(c)
        /\ call' = Post(c, f)
        /\ IF Verdict[f] # ""
           THEN /\ Flash(c, Verdict[f])
                /\ response' = Redirect("/", Loaded)
                /\ UNCHANGED <<output, saved>>
           ELSE \/ /\ Flash(c, "Data loading error")
                   /\ response' = Redirect("/?error", Loaded)
                   /\ UNCHANGED <<output, saved>>
                \/ /\ Flash(c, "Optimization error")
                   /\ response' = Redirect("/?error", Optimized)
                   /\ UNCHANGED <<output, saved>>
                \/ /\ SetSession(c, "last_inputs", LastInputs(f))
                   /\ response' = [kind |-> "error", status |-> 500, ran |-> Rendered]
                   /\ UNCHANGED <<output, saved>>
                \/ /\ SetSession(c, "last_inputs", LastInputs(f))
                   /\ output' = Written(c, f)
                   /\ saved' = Written(c, f)
                   /\ response' = Redirect("/results", Rendered)
        /\ UNCHANGED <<optimizer, loader, value, saving>>

\* POST /optimize, lines 29-116: the form is refused (lines 52-83), loading
\* fails (lines 92-95), optimization fails (lines 103-106), combined_layout
\* raises after the inputs went into the session (lines 109-112), or the page
\* is written and the client is sent to /results (lines 113-116).
Optimize ==
    \E c \in Clients, f \in Forms :
        /\ CanPost(c)
        /\ call' = Post(c, f)
        /\ IF Verdict[f] # ""
           THEN /\ Flash(c, Verdict[f])
                /\ response' = Redirect("/", {})
                /\ UNCHANGED <<output, saved>>
           ELSE \/ /\ Flash(c, "Data loading error")
                   /\ response' = Redirect("/?error", Loaded)
                   /\ UNCHANGED <<output, saved>>
                \/ /\ Flash(c, "Optimization error")
                   /\ response' = Redirect("/?error", Optimized)
                   /\ UNCHANGED <<output, saved>>
                \/ /\ SetSession(c, "last_inputs", LastInputs(f))
                   /\ response' = [kind |-> "error", status |-> 500, ran |-> Rendered]
                   /\ UNCHANGED <<output, saved>>
                \/ /\ SetSession(c, "last_inputs", LastInputs(f))
                   /\ output' = Written(c, f)
                   /\ saved' = Written(c, f)
                   /\ response' = Redirect("/results", Rendered)
        /\ UNCHANGED <<optimizer, loader, value, saving>>

\* GET /, lines 22-27: the page shows the flashed messages and clears them.
Main ==
    \E c \in Clients :
        /\ call' = Get(c, "main")
        /\ response' = [kind |-> "page", status |-> 200, template |-> "index.html",
                        messages |-> session[c].flashes]
        /\ session' = [session EXCEPT ![c].flashes = <<>>]
        /\ UNCHANGED <<output, saving, saved, optimizer, loader, value>>

\* GET /results, lines 118-125.
Results ==
    \E c \in Clients :
        /\ call' = Get(c, "results")
        /\ response' = IF output.kind = "None"
                       THEN [kind |-> "text", status |-> 404,
                             body |-> "No results available. Please run an optimization first."]
                       ELSE [kind |-> "sent", status |-> 200, file |-> output]
        /\ UNCHANGED <<session, output, saving, saved, optimizer, loader, value>>

\* The application starts with no session; output.html may be there from an
\* earlier process (it lies in the working directory, line 113).
Leftover == [kind |-> "file", title |-> "Portfolio Optimization Results",
             by |-> "earlier", inputs |-> NoValue]

InitWeb ==
    /\ NoOptimizer
    /\ NoLoader
    /\ call = [op |-> "__init__", outcome |-> "returned"]
    /\ value = NoValue
    /\ session = [c \in Clients |-> NoSession]
    /\ output \in {NoFile, Leftover}
    /\ response = NoResponse
    /\ saving = [c \in Clients |-> NoValue]
    /\ saved = output

NextWeb ==
    \/ Optimize
    \/ Main
    \/ Results

SpecWeb == InitWeb /\ [][NextWeb]_vars

(***************************************************************************)
(* Requests served by several threads or worker processes: nothing in the  *)
(* handlers serialises them, so the steps of one POST /optimize interleave *)
(* with other requests.  save(layout), line 115, opens output.html for     *)
(* writing, which empties it, and then writes the page.                    *)
(***************************************************************************)
\* The forms that pass every check of lines 53-83.
Accepted == {f \in Forms : Verdict[f] = ""}

\* output.html between the open and the write of save(layout).
Truncated(c) == [kind |-> "file", title |-> "", by |-> c, inputs |-> NoValue]

\* POST /optimize up to the open of line 115: the form passed the checks,
\* loading, optimization and combined_layout succeeded, the inputs are in the
\* session (line 109).
OptimizeOpen ==
    \E c \in Clients, f \in Accepted :
        /\ CanPost(c)
        /\ saving[c] = NoValue
        /\ SetSession(c, "last_inputs", LastInputs(f))
        /\ output' = Truncated(c)
        /\ saving' = [saving EXCEPT ![c] = f]
        /\ UNCHANGED <<saved, call, response, optimizer, loader, value>>

\* The rest of it: the page is written (line 115) and the client is sent to
\* /results (line 116).  Of two writers, the page of the later write stays.
OptimizeSave ==
    \E c \in Clients :
        /\ saving[c] # NoValue
        /\ output' = Written(c, saving[c])
        /\ saved' = Written(c, saving[c])
        /\ call' = Post(c, saving[c])
        /\ response' = Redirect("/results", Rendered)
        /\ saving' = [saving EXCEPT ![c] = NoValue]
        /\ UNCHANGED <<session, optimizer, loader, value>>

NextThreaded ==
    \/ OptimizeOpen
    \/ OptimizeSave
    \/ Results

SpecThreaded == InitWeb /\ [][NextThreaded]_vars

(***************************************************************************)
(* Properties.                                                             *)
(***************************************************************************)
\* Comparisons of doubles: false as soon as one side is NaN.
GE(a, b) == ~IsNaN(a) /\ ~IsNaN(b) /\ a >= b

LE(a, b) == ~IsNaN(a) /\ ~IsNaN(b) /\ a <= b

Returned(op) == call = [op |-> op, outcome |-> "returned"]

Raised(op) == call = [op |-> op, outcome |-> "raised"]

HasTable == results.kind = "dict"

NumRows == Len(results.returns)

\* The draws of the j-th weight vector of a run over n assets.
DrawnAt(j, n) == SubSeq(stream, (j - 1) * n + 1, j * n)

\* Row j of the stored arrays, field by field.
StoredRow(j) ==
    [Return |-> results.returns[j], Risk |-> results.risk[j],
     Sharpe |-> results.sharpe_ratio[j], Weights |-> results.weights.rows[j]]

\* C1: when run_simulation returns, every array of the table has exactly
\* num_portfolios rows, row j holds the normalised j-th draw and the return,
\* risk and Sharpe ratio computed from that same weight vector; the table of
\* get_metrics_df has the same number of rows, in the same order.
C1_RowsInSamplingOrder ==
    /\ Returned("run_simulation") =>
        /\ value = results
        /\ NumRows = num_portfolios
        /\ Len(results.risk) = num_portfolios
        /\ Len(results.sharpe_ratio) = num_portfolios
        /\ Len(results.weights.rows) = num_portfolios
        /\ \A j \in 1..num_portfolios :
            LET wts == results.weights.rows[j]
            IN  /\ wts = Normalize(DrawnAt(j, price_data.cols))
                /\ results.returns[j] = PortRet(LogRetOf(price_data), wts)
                /\ results.risk[j] = PortSd(CovMatrix(LogRetOf(price_data)), wts)
                /\ results.sharpe_ratio[j] =
                       SharpeOf(results.returns[j], risk_free_rate, results.risk[j])
    /\ Returned("get_metrics_df") =>
        /\ Len(value.rows) = num_portfolios
        /\ \A j \in 1..num_portfolios : value.rows[j] = StoredRow(j)

\* C1 witness: a run over two assets returned two rows with different weights.
C1_Witness ==
    /\ Returned("run_simulation")
    /\ num_portfolios = 2
    /\ price_data.cols = 2
    /\ results.weights.rows[1] # results.weights.rows[2]
    /\ results.returns[1] # results.returns[2]

\* A price matrix with at least 2 assets and at least 2 dates.
TwoByTwo(pd) == pd.kind = "DataFrame" /\ pd.cols >= 2 /\ Len(pd.rows) >= 2

\* C2: every weight vector stored by run_simulation has no negative entry
\* and sums to 1, whatever the draws (stated for the runs over at least 2
\* assets and 2 dates, where it already fails).
C2_WeightsOnSimplex ==
    (Returned("run_simulation") /\ TwoByTwo(price_data)) =>
        \A j \in 1..NumRows :
            LET wts == results.weights.rows[j]
            IN  /\ \A a \in 1..Len(wts) : GE(wts[a], 0)
                /\ NpSum(wts) = ONE

\* C3: on a non-empty table get_optimal_portfolios returns, as max_sharpe a
\* row whose Sharpe is >= every row's, as min_variance a row whose Risk is
\* <= every row's, as max_return a row whose Return is >= every row's
\* (stated for the tables of at least 2 assets and 2 dates whose weights are
\* all numbers, where it already fails).
C3_OptimalAreExtreme ==
    LET df == MetricsDf(price_data, results)
    IN  (call.op = "get_optimal_portfolios" /\ df.ok /\ Len(df.rows) > 0
            /\ TwoByTwo(price_data)
            /\ \A j \in 1..Len(df.rows) : ~AnyNaN(df.rows[j].Weights)) =>
            /\ call.outcome = "returned"
            /\ \A j \in 1..Len(df.rows) :
                /\ GE(value.max_sharpe.Sharpe, df.rows[j].Sharpe)
                /\ LE(value.min_variance.Risk, df.rows[j].Risk)
                /\ GE(value.max_return.Return, df.rows[j].Return)

\* C4: each portfolio get_optimal_portfolios returns equals, on every field,
\* one row of the stored table.
C4_OptimalAreRows ==
    Returned("get_optimal_portfolios") =>
        \A v \in {value.max_sharpe, value.min_variance, value.max_return} :
            \E j \in 1..NumRows : v = StoredRow(j)

\* C4 witness: three different rows were returned.
C4_Witness ==
    /\ Returned("get_optimal_portfolios")
    /\ NumRows >= 2
    /\ value.max_sharpe # value.max_return
    /\ value.min_variance.Weights # results.weights.rows[1]

\* The first row whose key equals x.
FirstWith(keys, x) == CHOOSE j \in 1..Len(keys) :
    keys[j] = x /\ \A k \in 1..Len(keys) : keys[k] = x => j <= k

\* C5: when rows tie on the selection key, get_optimal_portfolios returns
\* the tied row with the smallest index.
C5_FirstOfTies ==
    Returned("get_optimal_portfolios") =>
        /\ value.max_sharpe =
               StoredRow(FirstWith(results.sharpe_ratio, value.max_sharpe.Sharpe))
        /\ value.min_variance =
               StoredRow(FirstWith(results.risk, value.min_variance.Risk))
        /\ value.max_return =
               StoredRow(FirstWith(results.returns, value.max_return.Return))

\* C5 witness: two rows with different weights tie on the maximal Sharpe.
C5_Witness ==
    /\ Returned("get_optimal_portfolios")
    /\ NumRows = 2
    /\ results.sharpe_ratio[1] = results.sharpe_ratio[2]
    /\ results.weights.rows[1] # results.weights.rows[2]

\* The rows of a table under construction or stored satisfy the Sharpe rule.
SharpeRule(ret, risk, sharpe, rf, done) ==
    \A j \in 1..done :
        /\ risk[j] = 0 => sharpe[j] = 0
        /\ (~IsNaN(risk[j]) /\ risk[j] > 0 /\ ~IsNaN(ret[j])) =>
               sharpe[j] = TDiv((ret[j] - rf) * ONE, risk[j])

\* C6: a row whose risk is 0 has Sharpe exactly 0; the Sharpe ratio is
\* (return - risk_free_rate) / risk only when risk > 0.
C6_ZeroRiskZeroSharpe ==
    /\ SharpeRule(port_returns, port_risk, sharpe_ratio, risk_free_rate, i)
    /\ HasTable => SharpeRule(results.returns, results.risk, results.sharpe_ratio,
                              risk_free_rate, NumRows)

\* C6 witness: a stored row has risk 0 and an excess return that is not 0.
C6_Witness ==
    /\ HasTable
    /\ \E j \in 1..NumRows :
        /\ results.risk[j] = 0
        /\ ~IsNaN(results.returns[j])
        /\ results.returns[j] # risk_free_rate

\* C7: a simulation with num_portfolios <= 0 raises before any weight vector
\* is sampled and produces no table (the price matrix being valid).
C7_NonPositiveCountRaises ==
    (num_portfolios <= 0 /\ TwoByTwo(price_data)) =>
        /\ ~HasTable
        /\ ~Returned("run_simulation")

\* C8: a simulation on a price matrix with a single date raises instead of
\* completing with a table (the other inputs being valid).
C8_SingleDateRaises ==
    (price_data.kind = "DataFrame" /\ price_data.cols >= 2
        /\ Len(price_data.rows) = 1 /\ num_portfolios >= 1) =>
        /\ ~HasTable
        /\ ~Returned("run_simulation")

\* C9: a simulation on a price matrix with a single asset column raises
\* instead of completing with a table (the other inputs being valid).
C9_SingleAssetRaises ==
    (price_data.kind = "DataFrame" /\ price_data.cols = 1
        /\ Len(price_data.rows) >= 2 /\ num_portfolios >= 1) =>
        /\ ~HasTable
        /\ ~Returned("run_simulation")

\* C10: run_simulation on price data that is None, no DataFrame or empty
\* raises PortfolioOptimizerError before any sampling or numeric work and
\* leaves the stored results exactly as they were.
C10_InvalidDataLeavesResults ==
    [][(pc = "idle" /\ InvalidData(price_data) /\ call' # call
            /\ call'.op = "run_simulation") =>
        /\ call'.outcome = "raised"
        /\ results' = results
        /\ pc' = "idle"
        /\ UNCHANGED <<locals, stream, rng>>]_vars

\* C10 witness: the run failed on rebound data and the earlier table is kept.
C10_Witness ==
    /\ Raised("run_simulation")
    /\ InvalidData(price_data)
    /\ HasTable
    /\ NumRows > 0

\* C11: no completed run stores a NaN Return, Risk or Sharpe: a run whose
\* mean log return or covariance is not finite fails instead (stated for the
\* runs over at least 2 assets and 2 dates whose weights are all numbers,
\* where it already fails).
C11_NoNonFiniteStored ==
    (Returned("run_simulation") /\ TwoByTwo(price_data)) =>
        \A j \in 1..NumRows :
            ~AnyNaN(results.weights.rows[j]) =>
                /\ ~IsNaN(results.returns[j])
                /\ ~IsNaN(results.risk[j])
                /\ ~IsNaN(results.sharpe_ratio[j])

\* C12: a run that completes on an optimizer holding the table of an earlier
\* run over the same price matrix, num_portfolios and risk_free_rate stores
\* the same table again, row for row, however many draws other code made
\* from the generator between the two runs.
C12_SameInputsSameTable ==
    [][(pc = "loop" /\ pc' = "idle" /\ results.kind = "dict") =>
        /\ results' = results
        /\ value' = results]_vars

\* C12 witness: a run of two rows was repeated after other code had drawn
\* past the end of the first run.
C12_Witness ==
    /\ Returned("run_simulation")
    /\ NumRows = 2
    /\ rng.pos = TableDraws
    /\ Len(stream) > TableDraws
    /\ results.weights.rows[1] # results.weights.rows[2]

\* C13: a run that interleaves with the runs of other optimizers returns the
\* table it returns when run alone, the one built from the first draws of the
\* generator seeded with 42 (stated for the rows whose weights are numbers).
C13_TableAsWhenAlone ==
    Returned("run_simulation") =>
        \A j \in 1..NumRows :
            LET alone == Normalize(DrawnAt(j, price_data.cols))
            IN  (~AnyNaN(alone) /\ ~AnyNaN(results.weights.rows[j])) =>
                    results.weights.rows[j] = alone

\* C14: the table a caller was handed by run_simulation keeps every row and
\* value it had when returned, whatever runs come later: as long as the
\* optimizer still refers to the object the caller holds, that object holds
\* the table as returned (and once it refers to another one, no later run
\* reaches the caller's).
C14_HeldTableKept ==
    (held.id # NoObject /\ held.id = results_id) => results = held.table

\* C14 witness: a later run has stored another table and the caller's is the
\* object it was.
C14_Witness ==
    /\ held.id # NoObject
    /\ HasTable
    /\ results_id # held.id
    /\ results # held.table
    /\ Returned("run_simulation")

\* C15: get_optimal_portfolios on a table of zero rows raises
\* PortfolioOptimizerError and returns nothing.
C15_EmptyTableRaises ==
    (call.op = "get_optimal_portfolios" /\ HasTable /\ NumRows = 0) =>
        /\ call.outcome = "raised"
        /\ value = NoValue

\* C15 witness: the call failed on a table of zero rows that get_metrics_df
\* can lay out.
C15_Witness ==
    /\ Raised("get_optimal_portfolios")
    /\ HasTable
    /\ NumRows = 0
    /\ MetricsDf(price_data, results).ok

Getters == {"get_metrics_df", "get_optimal_portfolios", "get_visualization_data"}

\* C16: while no run_simulation call has completed (results is None), each
\* of get_metrics_df, get_optimal_portfolios and get_visualization_data
\* raises PortfolioOptimizerError, returns nothing and leaves results None.
C16_GettersRaiseBeforeRun ==
    (call.op \in Getters /\ ~HasTable) =>
        /\ call.outcome = "raised"
        /\ value = NoValue
        /\ results = NoResults
        /\ results_id = NoObject

\* C16 witness: get_visualization_data failed on an optimizer whose data is
\* valid and whose every run fails.
C16_Witness ==
    /\ Raised("get_visualization_data")
    /\ ~HasTable
    /\ ~InvalidData(price_data)
    /\ num_portfolios < 0

\* C19: on a DataLoader without data, clean and filter_dates return None
\* without raising and leave the data absent, and get_data raises
\* DataLoaderError; get_data also raises whenever the data held is empty,
\* after any calls of clean and filter_dates.
C19_NoDataNoFrame ==
    [][(call' # call \/ value' # value) =>
        /\ (data.kind = "None" /\ call'.op \in {"clean", "filter_dates"}) =>
               /\ call'.outcome = "returned"
               /\ value' = NoValue
               /\ data' = NoneData
        /\ (call'.op = "get_data" /\ (data.kind = "None" \/ data.rows = <<>>)) =>
               /\ call'.outcome = "raised"
               /\ value' = NoValue
               /\ data' = data]_vars

\* C19 witness: get_data failed on data that filter_dates had emptied.
C19_Witness ==
    /\ Raised("get_data")
    /\ data.kind = "DataFrame"
    /\ data.rows = <<>>
    /\ start_date # Unset
    /\ end_date # Unset
    /\ start_date <= end_date

\* A date within the bounds, each inclusive, an unset bound being no limit.
InRange(d) ==
    /\ start_date = Unset \/ start_date <= d
    /\ end_date = Unset \/ d <= end_date

\* C20: filter_dates on loaded data leaves exactly the rows of the previous
\* data whose date lies within the bounds, in their original order, and
\* returns them; filtering the result again changes nothing.
C20_FilterKeepsRowsInRange ==
    [][(call'.op = "filter_dates" /\ call' # call /\ data.kind = "DataFrame") =>
        /\ call'.outcome = "returned"
        /\ data'.kind = "DataFrame"
        /\ data'.rows = SelectSeq(data.rows, LAMBDA r : InRange(r.Date))
        /\ value' = data'
        /\ FilterRows(data'.rows) = data'.rows]_vars

\* C20 witness: of three rows out of date order the filter kept the two
\* within the bounds, the last of them dated the end bound, in their order.
C20_Witness ==
    /\ Returned("filter_dates")
    /\ data.kind = "DataFrame"
    /\ Len(data.rows) = 2
    /\ data.rows[1].Date > data.rows[2].Date
    /\ data.rows[1].Date = end_date
    /\ data.rows[1].close = 2
    /\ data.rows[2].close = 3

\* The messages of the checks a form fails, each check taken by itself:
\* empty symbols, malformed symbols, a missing date, start after end,
\* num_portfolios not an integer in 100..10000, risk_free_rate not a number.
Matching(f) ==
    LET symbols == SymbolsOf(Strip(f.symbols))
        n == Strip(f.num_portfolios)
    IN  {m \in Messages :
            \/ /\ m = NoSymbols
               /\ Strip(f.symbols) = <<>>
            \/ /\ m = InvalidSymbols
               /\ symbols = <<>> \/ \E k \in 1..Len(symbols) : ~IsSymbol(symbols[k])
            \/ /\ m = MissingDate
               /\ Strip(f.start_date) = <<>> \/ Strip(f.end_date) = <<>>
            \/ /\ m = StartAfterEnd
               /\ StrGT(Strip(f.start_date), Strip(f.end_date))
            \/ /\ m = BadNumPortfolios
               /\ ~IsInt(n) \/ IntOf(n) < 100 \/ IntOf(n) > 10000
            \/ /\ m = BadRiskFreeRate
               /\ ~IsFloat(Strip(f.risk_free_rate))}

\* C17: a POST /optimize whose form fails a check flashes a message of a
\* check the form fails and redirects to the main page; it invokes neither
\* the data loader nor the optimizer and leaves the session data, so
\* session['last_inputs'], and the output file as they were.
C17_RefusedFormOnlyFlashes ==
    [][(call'.op = "optimize" /\ call' # call /\ Matching(call'.form) # {}) =>
        /\ \E m \in Matching(call'.form) :
            session'[call'.client].flashes = Append(session[call'.client].flashes, m)
        /\ response'.kind = "redirect"
        /\ response'.location = "/"
        /\ response'.ran = {}
        /\ session'[call'.client].data = session[call'.client].data
        /\ \A c \in Clients \ {call'.client} : session'[c] = session[c]
        /\ output' = output]_vars

\* C17 witness: a client whose earlier form was accepted posted "1e2" as
\* num_portfolios; the message is flashed, the earlier inputs and page stay.
C17_Witness ==
    /\ call.op = "optimize"
    /\ call.client = "b"
    /\ call.form.num_portfolios = <<"1", "e", "2">>
    /\ session["b"].flashes =
           <<BadNumPortfolios>>
    /\ DOMAIN session["b"].data = {"last_inputs"}
    /\ output = Written("b", GoodForm)
    /\ response = Redirect("/", {})

\* C18: after a POST /optimize with a valid form whose loading, optimization
\* and rendering succeeded, the response has status 200 and carries the
\* 'Portfolio Optimization Results' page, and the session of the client
\* contains both 'last_metrics_csv' and 'last_inputs'.
C18_ValidPostAnswersPage ==
    (/\ call.op = "optimize"
     /\ Verdict[call.form] = ""
     /\ response.ran = Rendered
     /\ output = Written(call.client, call.form)) =>
        /\ response.status = 200
        /\ response.kind = "sent"
        /\ response.file.title = "Portfolio Optimization Results"
        /\ {"last_metrics_csv", "last_inputs"} \subseteq DOMAIN session[call.client].data

\* A step in which GET /results is answered.
ResultsAnswered ==
    /\ call'.op = "results"
    /\ <<call, response>>' # <<call, response>>

\* A step of a POST /optimize of client c whose form passed the checks and
\* whose loading and optimization succeeded.
PassedPost(c) ==
    \/ saving'[c] \in Accepted
    \/ saving[c] \in Accepted
    \/ /\ call'.op = "optimize"
       /\ call'.client = c
       /\ call'.form \in Accepted
       /\ response'.ran = Rendered

\* C21: GET /results answers 404 whenever output.html does not exist; the
\* file is created or overwritten only by a POST /optimize that passed
\* validation, loading and optimization; and once the file exists, GET
\* /results of any client serves the file written by the most recently
\* completed successful POST /optimize of any client.
C21_ResultsServeLastSaved ==
    [][/\ (ResultsAnswered /\ output.kind = "None") =>
            /\ response'.status = 404
            /\ response'.body = "No results available. Please run an optimization first."
       /\ output' # output => \E c \in Clients : PassedPost(c)
       /\ (ResultsAnswered /\ output.kind # "None") =>
            /\ response'.status = 200
            /\ response'.file = saved]_vars

====
